---- MODULE Spec2Model ----
(***************************************************************************)
(* Chat relay of project/backend: the message table of db.py and the       *)
(* request handlers of main.py (POST /chat, GET /history, DELETE /history).*)
(* A /chat request runs STEP 1 and STEP 2 without yielding, then awaits    *)
(* the inference service twice (GET /api/tags, POST /api/chat), awaits the *)
(* closing of the HTTP client, and runs STEP 4 and the return.             *)
(***************************************************************************)
EXTENDS Integers, Sequences, FiniteSets, TLC

\* ---------------------------------------------------------------- bounds
MaxPrior == 6        \* user/assistant exchanges persisted by earlier runs
MaxRows  == 4        \* inserts of a run of the store-level specification
MaxNeg   == 2        \* GET /history limits range over -MaxNeg .. MaxLimit
MaxLimit == 3

\* ------------------------------------------------------ program constants
OLLAMA_MODEL == "tinyllama"
HistoryLimit == 10   \* db.get_history(limit=10) in chat
Window       == 6    \* history[-6:] in chat

Calls    == {1, 2}                \* two /chat requests, which may overlap
Roles    == {"user", "assistant"}
Texts    == {"hello", "bye"}      \* request.message
Replies  == {"hi", "ok"}          \* result["message"]["content"]
Backends == {"sqlite", "postgres"}
Limits   == ((0 - MaxNeg) .. MaxLimit) \cup {HistoryLimit, 50}

VARIABLES
  DB_TYPE,      \* db.DB_TYPE, read once from the environment
  messages,     \* the rows of table messages, in insertion order
  nextId,       \* the AUTOINCREMENT / SERIAL counter of messages.id
  pc,           \* where each /chat request stands
  req,          \* the ChatRequest of each request
  history,      \* chat's local `history` (what db.get_history returned)
  chat_messages,\* chat's local `messages`, the context sent to the service
  assistant_msg,\* chat's local `assistant_msg`
  result,       \* what the request returned: HTTP status and body
  log,          \* the store and network operations each request performed
  wiped,        \* a DELETE /history ran after the request's STEP 1
  hist          \* the last answer of GET /history

vars == <<DB_TYPE, messages, nextId, pc, req, history, chat_messages,
          assistant_msg, result, log, wiped, hist>>

\* ---------------------------------------------------------------- helpers
Min(a, b) == IF a < b THEN a ELSE b

Reverse(s) == [i \in 1 .. Len(s) |-> s[Len(s) + 1 - i]]

\* s[:n], the slice taken from the wrong end
LastNM(s, n) == SubSeq(s, 1, Min(n, Len(s)))

\* Python's s[-n:] for n > 0
LastN(s, n) == IF Len(s) <= n THEN s ELSE SubSeq(s, Len(s) - n + 1, Len(s))

RowSet(tbl) == {tbl[i] : i \in 1 .. Len(tbl)}

\* ORDER BY id DESC
RECURSIVE OrderByIdDesc(_)
OrderByIdDesc(S) ==
  IF S = {} THEN <<>>
  ELSE LET m == CHOOSE r \in S : \A q \in S : q.id <= r.id
       IN  <<m>> \o OrderByIdDesc(S \ {m})

\* SQLite's LIMIT n: a negative n means no upper bound
SqliteLimit(s, n) == IF n < 0 THEN s ELSE SubSeq(s, 1, Min(n, Len(s)))

\* the columns get_history selects
Columns(r) == [role |-> r.role, content |-> r.content, timestamp |-> r.timestamp]

\* ------------------------------------------------------------------ db.py
\* an INSERT that stores every row as a user row
save_messageM(tbl, id, role, content, by) ==
  Append(tbl, [id |-> id, role |-> "user", content |-> content,
               timestamp |-> id, call |-> by])

\* INSERT INTO messages (role, content): id from the counter, timestamp
\* CURRENT_TIMESTAMP (logical insertion time). `by` is the inserting request.
save_message(tbl, id, role, content, by) ==
  Append(tbl, [id |-> id, role |-> role, content |-> content,
               timestamp |-> id, call |-> by])

\* the rows returned as fetched, newest first (reversed(rows) left out)
get_history_sqliteM(tbl, limit) ==
  LET rows == SqliteLimit(OrderByIdDesc(RowSet(tbl)), limit)
  IN  [i \in 1 .. Len(rows) |-> Columns(rows[i])]

get_history_sqlite(tbl, limit) ==
  LET rows == SqliteLimit(OrderByIdDesc(RowSet(tbl)), limit)
      rev  == Reverse(rows)
  IN  [i \in 1 .. Len(rev) |-> Columns(rev[i])]

\* the else branch: psycopg2 is imported inside get_postgres_conn only, so
\* the name is unbound where the cursor is created and the call raises
get_history_postgres(tbl, limit) == [ok |-> FALSE, error |-> "NameError", rows |-> <<>>]

get_history(db, tbl, limit, io) ==
  IF ~io THEN [ok |-> FALSE, error |-> "OperationalError", rows |-> <<>>]
  ELSE IF db = "sqlite"
       THEN [ok |-> TRUE, error |-> "", rows |-> get_history_sqlite(tbl, limit)]
       ELSE get_history_postgres(tbl, limit)

\* a DELETE that removes the user rows only
IsAssistantRow(r) == r.role = "assistant"
clear_historyM(tbl) == SelectSeq(tbl, IsAssistantRow)

\* DELETE FROM messages
clear_history(tbl) == <<>>

\* ---------------------------------------------------------------- main.py
\* STEP 2 of chat
BuildContext(use_history, h, text) ==
  LET prior == IF use_history /\ h.ok THEN LastN(h.rows, Window) ELSE <<>>
  IN  [i \in 1 .. Len(prior) |-> [role |-> prior[i].role, content |-> prior[i].content]]
      \o <<[role |-> "user", content |-> text]>>

NoHistory == [ok |-> FALSE, error |-> "not read", rows |-> <<>>]
NoResult  == [status |-> 0, body |-> [detail |-> "none"]]
Error(status) == [status |-> status, body |-> [detail |-> "error"]]
NoHist == [limit |-> 0, status |-> 0, history |-> <<>>, error |-> ""]
Reply(text) == [status |-> 200, body |-> [response |-> text, model |-> OLLAMA_MODEL]]

\* a raise that first rolls the request's rows back
FailM(c, status) ==
  LET Others(r) == r.call # c
  IN  /\ pc' = [pc EXCEPT ![c] = "done"]
      /\ result' = [result EXCEPT ![c] = Error(status)]
      /\ messages' = SelectSeq(messages, Others)
      /\ UNCHANGED nextId

\* raise HTTPException(status, ...): the request ends, the table is untouched
Fail(c, status) ==
  /\ pc' = [pc EXCEPT ![c] = "done"]
  /\ result' = [result EXCEPT ![c] = Error(status)]
  /\ UNCHANGED <<messages, nextId>>

\* what the inference service may answer to GET /api/tags and POST /api/chat
TagsOutcomes == {"ok", "bad status", "connect error", "timeout", "error"}
PostOutcomes ==
  [kind : {"reply"}, content : Replies]
  \cup [kind : {"malformed", "not found", "bad status", "connect error",
                "timeout", "error"}, content : {""}]

\* the HTTP status chat raises for an outcome of the health check (0: none)
TagsStatus(o) ==
  CASE o = "ok"            -> 0
    [] o = "bad status"    -> 503
    [] o = "connect error" -> 503
    [] o = "timeout"       -> 504
    [] OTHER               -> 500

\* the HTTP status chat raises for an outcome of the POST (0: none)
PostStatus(o) ==
  CASE o.kind = "reply"         -> 0
    [] o.kind = "not found"     -> 503
    [] o.kind = "connect error" -> 503
    [] o.kind = "timeout"       -> 504
    [] OTHER                    -> 500

\* the table a process finds at start: k exchanges of earlier runs
PriorRow(i) ==
  [id |-> i, role |-> IF i % 2 = 1 THEN "user" ELSE "assistant",
   content |-> IF i % 2 = 1 THEN (IF i % 4 = 1 THEN "hello" ELSE "bye")
               ELSE (IF i % 4 = 2 THEN "hi" ELSE "ok"),
   timestamp |-> i, call |-> 0]
PriorStore(k) == [i \in 1 .. 2 * k |-> PriorRow(i)]

Init ==
  /\ DB_TYPE \in Backends
  /\ \E k \in 0 .. MaxPrior : messages = PriorStore(k) /\ nextId = 2 * k + 1
  /\ pc = [c \in Calls |-> "idle"]
  /\ req = [c \in Calls |-> [message |-> "", use_history |-> FALSE]]
  /\ history = [c \in Calls |-> NoHistory]
  /\ chat_messages = [c \in Calls |-> <<>>]
  /\ assistant_msg = [c \in Calls |-> ""]
  /\ result = [c \in Calls |-> NoResult]
  /\ log = [c \in Calls |-> <<>>]
  /\ wiped = [c \in Calls |-> FALSE]
  /\ hist = NoHist

\* STEP 1's failure swallowed the way STEP 4's is: the request goes on
Step1FailedM(c) ==
  /\ log' = [log EXCEPT ![c] = <<"save user failed", "GET /api/tags">>]
  /\ pc' = [pc EXCEPT ![c] = "tags"]
  /\ UNCHANGED <<messages, nextId, result, history, chat_messages>>

\* STEP 1 failed: the except branch raises HTTPException(500)
Step1Failed(c) ==
  /\ Fail(c, 500)
  /\ log' = [log EXCEPT ![c] = <<"save user failed">>]
  /\ UNCHANGED <<history, chat_messages>>

\* STEP 1 saved the message: STEP 2, then GET /api/tags is sent and awaited
Step1Saved(c, text, uh, readOk) ==
  LET tbl == save_message(messages, nextId, "user", text, c)
      h   == IF uh THEN get_history(DB_TYPE, tbl, HistoryLimit, readOk) ELSE NoHistory
  IN  /\ messages' = tbl
      /\ nextId' = nextId + 1
      /\ history' = [history EXCEPT ![c] = h]
      /\ chat_messages' = [chat_messages EXCEPT ![c] = BuildContext(uh, h, text)]
      /\ log' = [log EXCEPT ![c] =
                   <<"save user">>
                   \o (IF uh THEN <<IF h.ok THEN "get_history" ELSE "get_history failed">>
                       ELSE <<>>)
                   \o <<"GET /api/tags">>]
      /\ pc' = [pc EXCEPT ![c] = "tags"]
      /\ UNCHANGED result

\* POST /chat up to the first await
ChatStart(c) ==
  /\ pc[c] = "idle"
  /\ \A d \in Calls : d < c => pc[d] # "idle"
  /\ \E text \in Texts, uh \in BOOLEAN, saveOk \in BOOLEAN, readOk \in BOOLEAN :
       /\ req' = [req EXCEPT ![c] = [message |-> text, use_history |-> uh]]
       /\ IF saveOk THEN Step1Saved(c, text, uh, readOk) ELSE Step1Failed(c)
  /\ UNCHANGED <<DB_TYPE, assistant_msg, wiped, hist>>

\* the answer to GET /api/tags arrives; on 200 the POST /api/chat is sent
ChatTags(c) ==
  /\ pc[c] = "tags"
  /\ \E o \in TagsOutcomes :
       IF TagsStatus(o) = 0
       THEN /\ pc' = [pc EXCEPT ![c] = "post"]
            /\ log' = [log EXCEPT ![c] = Append(@, "POST /api/chat")]
            /\ UNCHANGED <<messages, nextId, result>>
       ELSE /\ Fail(c, TagsStatus(o))
            /\ UNCHANGED log
  /\ UNCHANGED <<DB_TYPE, req, history, chat_messages, assistant_msg, wiped, hist>>

\* the answer to POST /api/chat arrives; a well-formed reply is extracted and
\* the request awaits the closing of the HTTP client
ChatPost(c) ==
  /\ pc[c] = "post"
  /\ \E o \in PostOutcomes :
       IF PostStatus(o) = 0
       THEN /\ assistant_msg' = [assistant_msg EXCEPT ![c] = o.content]
            /\ pc' = [pc EXCEPT ![c] = "closing"]
            /\ log' = [log EXCEPT ![c] = Append(@, "reply")]
            /\ UNCHANGED <<messages, nextId, result>>
       ELSE /\ Fail(c, PostStatus(o))
            /\ UNCHANGED <<log, assistant_msg>>
  /\ UNCHANGED <<DB_TYPE, req, history, chat_messages, wiped, hist>>

\* STEP 4 saved the reply; the request returns it
Step4Saved(c) ==
  /\ messages' = save_message(messages, nextId, "assistant", assistant_msg[c], c)
  /\ nextId' = nextId + 1
  /\ log' = [log EXCEPT ![c] = Append(@, "save assistant")]
  /\ result' = [result EXCEPT ![c] = Reply(assistant_msg[c])]

\* STEP 4's failure raised the way STEP 1's is
Step4FailedM(c) ==
  /\ log' = [log EXCEPT ![c] = Append(@, "save assistant failed")]
  /\ result' = [result EXCEPT ![c] = Error(500)]
  /\ UNCHANGED <<messages, nextId>>

\* STEP 4 failed: the except branch prints and goes on to the return
Step4Failed(c) ==
  /\ log' = [log EXCEPT ![c] = Append(@, "save assistant failed")]
  /\ result' = [result EXCEPT ![c] = Reply(assistant_msg[c])]
  /\ UNCHANGED <<messages, nextId>>

\* the HTTP client is closed; STEP 4 and the return
ChatSave(c) ==
  /\ pc[c] = "closing"
  /\ \E saveOk \in BOOLEAN : IF saveOk THEN Step4Saved(c) ELSE Step4Failed(c)
  /\ pc' = [pc EXCEPT ![c] = "done"]
  /\ UNCHANGED <<DB_TYPE, req, history, chat_messages, assistant_msg, wiped, hist>>


\* GET /history?limit=N
History ==
  /\ \E limit \in Limits, io \in BOOLEAN :
       LET h == get_history(DB_TYPE, messages, limit, io)
       IN  hist' = [limit |-> limit, status |-> IF h.ok THEN 200 ELSE 500,
                    history |-> h.rows, error |-> h.error]
  /\ UNCHANGED <<DB_TYPE, messages, nextId, pc, req, history, chat_messages,
                 assistant_msg, result, log, wiped>>

\* DELETE /history
ClearHistory ==
  /\ \E io \in BOOLEAN :
       IF io
       THEN /\ messages' = clear_history(messages)
            /\ wiped' = [c \in Calls |-> wiped[c] \/ pc[c] # "idle"]
       ELSE UNCHANGED <<messages, wiped>>
  /\ hist' = NoHist
  /\ UNCHANGED <<DB_TYPE, nextId, pc, req, history, chat_messages,
                 assistant_msg, result, log>>

\* db.save_message called on its own (the store's append)
Save ==
  /\ nextId <= MaxRows
  /\ \E role \in Roles, content \in Texts, io \in BOOLEAN :
       IF io
       THEN /\ messages' = save_message(messages, nextId, role, content, 0)
            /\ nextId' = nextId + 1
       ELSE UNCHANGED <<messages, nextId>>
  /\ hist' = NoHist
  /\ UNCHANGED <<DB_TYPE, pc, req, history, chat_messages, assistant_msg,
                 result, log, wiped>>

\* the relay: overlapping /chat requests and DELETE /history, on the table
\* earlier runs left
Next ==
  \/ \E c \in Calls : ChatStart(c)
  \/ \E c \in Calls : ChatTags(c)
  \/ \E c \in Calls : ChatPost(c)
  \/ \E c \in Calls : ChatSave(c)
  \/ ClearHistory

Spec == Init /\ [][Next]_vars

\* the store on its own: appends, GET /history and DELETE /history on a
\* table that starts empty
InitStore == Init /\ messages = <<>>

NextStore ==
  \/ Save
  \/ History
  \/ ClearHistory

SpecStore == InitStore /\ [][NextStore]_vars

\* ------------------------------------------------------------- properties
RC(r) == [role |-> r.role, content |-> r.content]
RowsBy(c, role) == {i \in DOMAIN messages : messages[i].call = c /\ messages[i].role = role}
UserRowKept(c) ==
  \E i \in RowsBy(c, "user") : messages[i].content = req[c].message
Last(s) == s[Len(s)]
Started(c) == pc[c] = "idle" /\ pc'[c] = "tags"
Alone(c) == \A d \in Calls \ {c} : pc[d] = "idle"

\* C1: a GET /history with limit >= 1 that returns, returns exactly the last
\* min(limit, total) rows of the table, oldest first, role and content (and
\* timestamp) as stored.
C1_RecentReturnsLastRows ==
  (hist.status = 200 /\ hist.limit >= 1) =>
    LET total == Len(messages)
        k     == Min(hist.limit, total)
    IN  hist.history = [i \in 1 .. k |-> Columns(messages[total - k + i])]

C1_Witness ==
  /\ hist.status = 200 /\ hist.limit = 2 /\ Len(messages) = 3
  /\ Len(hist.history) = 2
  /\ hist.history[1].timestamp < hist.history[2].timestamp

\* C2: a /chat with use_history on a table of 10 or more rows, whose history
\* read returned, sends 7 entries: the last 6 of the 10 rows recent(10)
\* fetched, oldest first, then the current user message.
C2_ContextWindow ==
  [][\A c \in Calls :
       (Started(c) /\ req'[c].use_history /\ history'[c].ok /\ Len(messages) >= 10)
       => LET n       == Len(messages')
              fetched == [i \in 1 .. 10 |-> Columns(messages'[n - 10 + i])]
          IN  /\ history'[c].rows = fetched
              /\ Len(chat_messages'[c]) = 7
              /\ \A i \in 1 .. 6 : chat_messages'[c][i] = RC(fetched[4 + i])
              /\ chat_messages'[c][7] = [role |-> "user", content |-> req'[c].message]
    ]_vars

C2_Witness ==
  /\ pc[1] = "tags" /\ Alone(1) /\ ~wiped[1]
  /\ req[1].use_history /\ history[1].ok
  /\ Len(messages) >= 11
  /\ Len(history[1].rows) = 10 /\ Len(chat_messages[1]) = 7

\* C3: a /chat whose STEP 1 save failed ends with status 500, has sent
\* nothing to the inference service and has written no row.
C3_UserSaveFailureAborts ==
  \A c \in Calls :
    (log[c] # <<>> /\ log[c][1] = "save user failed") =>
      /\ pc[c] = "done"
      /\ result[c] = Error(500)
      /\ log[c] = <<"save user failed">>
      /\ \A i \in DOMAIN messages : messages[i].call # c

C3_Witness ==
  \E c \in Calls : log[c] = <<"save user failed">> /\ result[c].status = 500

\* C4: a /chat that ended with 503 or 504 wrote no assistant row, and its
\* user row is still in the table unless a DELETE /history removed it.
C4_InferenceFailureKeepsUserRow ==
  \A c \in Calls :
    (pc[c] = "done" /\ result[c].status \in {503, 504}) =>
      /\ RowsBy(c, "assistant") = {}
      /\ \A i \in DOMAIN log[c] : log[c][i] # "save assistant"
      /\ ~wiped[c] => UserRowKept(c)

C4_Witness ==
  \E c \in Calls, d \in Calls :
    /\ pc[c] = "done" /\ result[c].status = 503 /\ UserRowKept(c)
    /\ pc[d] = "done" /\ result[d].status = 504 /\ UserRowKept(d)

\* C5: a /chat whose STEP 4 save failed still returns status 200 with the
\* service's reply and the configured model, and the table holds its user
\* row (unless a DELETE /history removed it) and no assistant row of it.
C5_AssistantSaveFailureIsSwallowed ==
  \A c \in Calls :
    (log[c] # <<>> /\ Last(log[c]) = "save assistant failed") =>
      /\ pc[c] = "done"
      /\ assistant_msg[c] \in Replies
      /\ result[c] = [status |-> 200,
                      body |-> [response |-> assistant_msg[c], model |-> OLLAMA_MODEL]]
      /\ RowsBy(c, "assistant") = {}
      /\ ~wiped[c] => UserRowKept(c)

C5_Witness ==
  \E c \in Calls :
    /\ pc[c] = "done" /\ result[c].status = 200
    /\ Last(log[c]) = "save assistant failed"
    /\ UserRowKept(c)

\* C6: a /chat that ran alone on an empty table (every row is its own, no
\* DELETE /history ran), got a reply and saved it, returns the reply and the
\* model and leaves exactly (user, text), (assistant, reply); it saved the
\* user row before contacting the service and the assistant row after the reply.
C6_SingleExchangeOnEmptyStore ==
  \A c \in Calls :
    ( /\ pc[c] = "done" /\ result[c].status = 200
      /\ Last(log[c]) = "save assistant"
      /\ Alone(c) /\ ~wiped[c]
      /\ \A i \in DOMAIN messages : messages[i].call = c )
    => /\ result[c].body = [response |-> assistant_msg[c], model |-> OLLAMA_MODEL]
       /\ assistant_msg[c] \in Replies
       /\ Len(messages) = 2
       /\ RC(messages[1]) = [role |-> "user", content |-> req[c].message]
       /\ RC(messages[2]) = [role |-> "assistant", content |-> assistant_msg[c]]
       /\ messages[1].id < messages[2].id
       /\ log[c] = <<"save user">>
                   \o (IF req[c].use_history
                       THEN <<IF history[c].ok THEN "get_history" ELSE "get_history failed">>
                       ELSE <<>>)
                   \o <<"GET /api/tags", "POST /api/chat", "reply", "save assistant">>

C6_Witness ==
  /\ pc[1] = "done" /\ result[1].status = 200 /\ Alone(1) /\ ~wiped[1]
  /\ req[1] = [message |-> "hello", use_history |-> TRUE]
  /\ assistant_msg[1] = "hi"
  /\ Len(messages) = 2 /\ messages[1].call = 1 /\ messages[2].call = 1

\* C7: a GET /history with limit <= 0 that returns, returns an empty list.
C7_NonPositiveLimitIsEmpty ==
  (hist.status = 200 /\ hist.limit <= 0) => hist.history = <<>>

\* C8: a /chat with use_history on a strictly alternating table of 6 or more
\* rows, whose history read returned, sends as prior context three complete
\* user-then-assistant exchanges, the three most recent of the table.
StrictlyAlternates(tbl) == \A i \in 1 .. Len(tbl) - 1 : tbl[i].role # tbl[i + 1].role

C8_ThreeCompleteExchanges ==
  [][\A c \in Calls :
       (Started(c) /\ req'[c].use_history /\ history'[c].ok
        /\ StrictlyAlternates(messages) /\ Len(messages) >= 6)
       => LET ctx   == chat_messages'[c]
              prior == SubSeq(ctx, 1, Len(ctx) - 1)
          IN  /\ Len(prior) = 6
              /\ \A j \in 1 .. 3 : /\ prior[2 * j - 1].role = "user"
                                   /\ prior[2 * j].role = "assistant"
    ]_vars

\* C9: with no I/O failure GET /history answers on either back end what the
\* SQLite path answers: status 200 and the rows of the SQLite query.
C9_BackendsAgree ==
  (hist.status # 0 /\ hist.error # "OperationalError") =>
    /\ hist.status = 200
    /\ hist.history = get_history_sqlite(messages, hist.limit)

\* the user row of the request that wrote the assistant row at i precedes it
OwnUserRowBefore(i) ==
  IF messages[i].call = 0
  THEN i > 1 /\ messages[i - 1].role = "user" /\ messages[i - 1].call = 0
  ELSE \E j \in 1 .. i - 1 : /\ messages[j].role = "user"
                             /\ messages[j].call = messages[i].call
                             /\ messages[j].id < messages[i].id
AssistantRows == {i \in DOMAIN messages : messages[i].role = "assistant"}
UserRows == {i \in DOMAIN messages : messages[i].role = "user"}

\* C10 (as claimed): every assistant row is preceded by the user row of the
\* same request; so there are never more assistant rows than user rows and
\* the oldest row is never an assistant row.
C10_AssistantAfterOwnUser ==
  /\ \A i \in AssistantRows : OwnUserRowBefore(i)
  /\ Cardinality(AssistantRows) <= Cardinality(UserRows)
  /\ messages # <<>> => messages[1].role = "user"

\* C10 (amended): every assistant row is preceded by the user row of the same
\* request unless a DELETE /history ran between that request's two saves; as
\* long as no DELETE /history ran after the STEP 1 of any request, there are
\* never more assistant rows than user rows and the oldest row is a user row.
C10_AssistantAfterOwnUserUnlessCleared ==
  /\ \A i \in AssistantRows :
       (messages[i].call # 0 /\ wiped[messages[i].call]) \/ OwnUserRowBefore(i)
  /\ (\A c \in Calls : ~wiped[c]) =>
       /\ Cardinality(AssistantRows) <= Cardinality(UserRows)
       /\ messages # <<>> => messages[1].role = "user"

C10_Witness ==
  \E i \in AssistantRows, j \in UserRows, k \in DOMAIN messages :
    /\ j < k /\ k < i
    /\ messages[i].call # 0 /\ messages[j].call = messages[i].call
    /\ messages[k].call \notin {0, messages[i].call}
    /\ \A c \in Calls : ~wiped[c]
====
